---- MODULE Spec2Model ----
(***************************************************************************)
(* The command-line argument parser of package parser (Parser, flagInfo,   *)
(* StringVar/IntVar/BoolVar, Parse, Args, Usage).                          *)
(*                                                                         *)
(* A Go string is a sequence of one-character strings, so that prefix      *)
(* tests, the split at the first "=" and the integer conversion are        *)
(* computed and not assumed.  The literal parts of a format string are     *)
(* kept as single elements of the formatted text.                          *)
(*                                                                         *)
(* A target pointer is an address into slots.  Every registration is given *)
(* the address of a variable of its own, as in every caller of the package *)
(* (tests, cmd/main.go, the documentation).                                *)
(***************************************************************************)
EXTENDS Integers, Sequences, FiniteSets, TLC

VARIABLES flags, slots, positional, output, program, args, err, last, calls

vars == <<flags, slots, positional, output, program, args, err, last, calls>>

\* Bounds of the exploration: registrations, tokens per Parse call and calls
\* of Parse or Usage on a parser built step by step (Spec), and tokens per
\* call and calls on the parser of the package's tests (SpecCli).
MaxFlags == 2
MaxArgs == 2
MaxCalls == 2
MaxCliArgs == 4
MaxCliCalls == 1

-----------------------------------------------------------------------------
(* package strings / strconv, as used by Parse *)

HasPrefix(s, prefix) ==
    /\ Len(s) >= Len(prefix)
    /\ SubSeq(s, 1, Len(prefix)) = prefix

Contains(s, c) == \E k \in 1..Len(s) : s[k] = c

Index(s, c) == CHOOSE k \in 1..Len(s) : s[k] = c /\ \A j \in 1..(k - 1) : s[j] # c

\* strings.SplitN(s, "=", 2) for an s that contains "=": the text before the
\* first "=" and the text after it.
SplitN(s) == <<SubSeq(s, 1, Index(s, "=") - 1), SubSeq(s, Index(s, "=") + 1, Len(s))>>

DigitChars == <<"0", "1", "2", "3", "4", "5", "6", "7", "8", "9">>

IsDigit(c) == \E d \in 1..10 : DigitChars[d] = c

DigitVal(c) == (CHOOSE d \in 1..10 : DigitChars[d] = c) - 1

RECURSIVE Decimal(_)
Decimal(s) == IF s = <<>> THEN 0 ELSE 10 * Decimal(SubSeq(s, 1, Len(s) - 1)) + DigitVal(s[Len(s)])

\* strconv.Atoi: an optional sign, then at least one digit and digits only.
\* (The texts explored are far shorter than the 19 digits at which Atoi
\* reports a range error.)
Atoi(s) ==
    LET signed == s # <<>> /\ s[1] \in {"+", "-"}
        body == IF signed THEN SubSeq(s, 2, Len(s)) ELSE s
    IN  IF body = <<>> \/ \E k \in 1..Len(body) : ~IsDigit(body[k])
        THEN [ok |-> FALSE, v |-> 0]
        ELSE [ok |-> TRUE, v |-> IF signed /\ s[1] = "-" THEN 0 - Decimal(body) ELSE Decimal(body)]

RECURSIVE Itoa(_)
Itoa(n) ==
    IF n < 0 THEN <<"-">> \o Itoa(0 - n)
    ELSE IF n < 10 THEN <<DigitChars[n + 1]>>
    ELSE Itoa(n \div 10) \o <<DigitChars[(n % 10) + 1]>>

-----------------------------------------------------------------------------
(* values of the package *)

Nil == <<>>

ErrHelpRequested == <<"help requested">>

True == <<"t", "r", "u", "e">>

False == <<"f", "a", "l", "s", "e">>

\* Mutant: only the long help token is recognised.
HelpLongOnly == {<<"-", "-", "h", "e", "l", "p">>}

Help == {<<"-", "-", "h", "e", "l", "p">>, <<"-", "h">>}

DefaultProgram == <<"p", "r", "o", "g", "r", "a", "m">>

\* Mutant: a name that is already in the map keeps its first value.
MapPutFirst(m, k, v) == IF k \in DOMAIN m THEN m ELSE [x \in (DOMAIN m) \cup {k} |-> IF x = k THEN v ELSE m[x]]

\* map[string]string
MapPut(m, k, v) == [x \in (DOMAIN m) \cup {k} |-> IF x = k THEN v ELSE m[x]]

MapDelete(m, k) == [x \in (DOMAIN m) \ {k} |-> m[x]]

EmptyMap == [x \in {} |-> <<>>]

-----------------------------------------------------------------------------
(* helpers of Parse *)

contains(slice, item) == \E k \in 1..Len(slice) : slice[k] = item

\* Mutant: the comparison with the long name is inverted.
hasFlagTypo(fl, name) ==
    \E k \in 1..Len(fl) : fl[k].shortName = name \/ fl[k].longName # name

hasFlag(fl, name) ==
    \E k \in 1..Len(fl) : fl[k].shortName = name \/ fl[k].longName = name

\* Mutant: the kind of the flag is not looked at.
needsValueAnyKind(fl, name) ==
    \E k \in 1..Len(fl) : fl[k].shortName = name \/ fl[k].longName = name

needsValue(fl, name) ==
    \E k \in 1..Len(fl) :
        /\ fl[k].shortName = name \/ fl[k].longName = name
        /\ fl[k].kind # "bool"

\* Mutant: after a consumed value the scan also skips the token that follows
\* the value.
ScanFlagSkips(fl, a, i, dashes, st) ==
    LET arg == a[i]
        rest == SubSeq(arg, dashes + 1, Len(arg))
    IN  IF Contains(arg, "=")
        THEN [st EXCEPT !.setFlags = MapPut(@, SplitN(rest)[1], SplitN(rest)[2]),
                        !.next = i + 1]
        ELSE IF i + 1 <= Len(a) /\ ~HasPrefix(a[i + 1], <<"-">>) /\ needsValue(fl, rest)
        THEN [st EXCEPT !.setFlags = MapPut(@, rest, a[i + 1]), !.next = i + 3]
        ELSE [st EXCEPT !.setFlags = MapPut(@, rest, True), !.next = i + 1]

\* Mutant: a consumed value is also appended to the positional list.
ScanFlagKeepsValue(fl, a, i, dashes, st) ==
    LET arg == a[i]
        rest == SubSeq(arg, dashes + 1, Len(arg))
    IN  IF Contains(arg, "=")
        THEN [st EXCEPT !.setFlags = MapPut(@, SplitN(rest)[1], SplitN(rest)[2]),
                        !.next = i + 1]
        ELSE IF i + 1 <= Len(a) /\ ~HasPrefix(a[i + 1], <<"-">>) /\ needsValue(fl, rest)
        THEN [st EXCEPT !.setFlags = MapPut(@, rest, a[i + 1]),
                        !.positional = Append(@, a[i + 1]), !.next = i + 2]
        ELSE [st EXCEPT !.setFlags = MapPut(@, rest, True), !.next = i + 1]

\* Mutant: the token after a bare flag is taken as its value even when it
\* starts with a dash.
ScanFlagAnyNext(fl, a, i, dashes, st) ==
    LET arg == a[i]
        rest == SubSeq(arg, dashes + 1, Len(arg))
    IN  IF Contains(arg, "=")
        THEN [st EXCEPT !.setFlags = MapPut(@, SplitN(rest)[1], SplitN(rest)[2]),
                        !.next = i + 1]
        ELSE IF i + 1 <= Len(a) /\ needsValue(fl, rest)
        THEN [st EXCEPT !.setFlags = MapPut(@, rest, a[i + 1]), !.next = i + 2]
        ELSE [st EXCEPT !.setFlags = MapPut(@, rest, True), !.next = i + 1]

\* The token at position i, once known to be a flag token whose name starts
\* after `dashes` characters: the scan state after it and the next position.
ScanFlag(fl, a, i, dashes, st) ==
    LET arg == a[i]
        rest == SubSeq(arg, dashes + 1, Len(arg))
    IN  IF Contains(arg, "=")
        THEN [st EXCEPT !.setFlags = MapPut(@, SplitN(rest)[1], SplitN(rest)[2]),
                        !.next = i + 1]
        ELSE IF i + 1 <= Len(a) /\ ~HasPrefix(a[i + 1], <<"-">>) /\ needsValue(fl, rest)
        THEN [st EXCEPT !.setFlags = MapPut(@, rest, a[i + 1]), !.next = i + 2]
        ELSE [st EXCEPT !.setFlags = MapPut(@, rest, True), !.next = i + 1]

\* Mutant: one character is cut from a long flag token, as from a short one.
ScanStepOneDash(fl, a, st) ==
    LET i == st.next
        arg == a[i]
    IN  IF HasPrefix(arg, <<"-", "-">>) THEN ScanFlag(fl, a, i, 1, st)
        ELSE IF HasPrefix(arg, <<"-">>) /\ arg # <<"-">> THEN ScanFlag(fl, a, i, 1, st)
        ELSE [st EXCEPT !.positional = Append(@, arg), !.next = i + 1]

\* Mutant: the single dash is not told apart from a short flag token.
ScanStepDashFlag(fl, a, st) ==
    LET i == st.next
        arg == a[i]
    IN  IF HasPrefix(arg, <<"-", "-">>) THEN ScanFlag(fl, a, i, 2, st)
        ELSE IF HasPrefix(arg, <<"-">>) THEN ScanFlag(fl, a, i, 1, st)
        ELSE [st EXCEPT !.positional = Append(@, arg), !.next = i + 1]

\* One iteration of the scanning loop.
ScanStep(fl, a, st) ==
    LET i == st.next
        arg == a[i]
    IN  IF HasPrefix(arg, <<"-", "-">>) THEN ScanFlag(fl, a, i, 2, st)
        ELSE IF HasPrefix(arg, <<"-">>) /\ arg # <<"-">> THEN ScanFlag(fl, a, i, 1, st)
        ELSE [st EXCEPT !.positional = Append(@, arg), !.next = i + 1]

RECURSIVE ScanLoop(_, _, _)
ScanLoop(fl, a, st) == IF st.next > Len(a) THEN st ELSE ScanLoop(fl, a, ScanStep(fl, a, st))

\* Mutant: the positional list is not reset before the scan.
ScanKeep(fl, a) == ScanLoop(fl, a, [positional |-> positional, setFlags |-> EmptyMap, next |-> 1])

\* The positional list and the setFlags map after the scanning loop.
Scan(fl, a) == ScanLoop(fl, a, [positional |-> <<>>, setFlags |-> EmptyMap, next |-> 1])

InvalidValue(fi, val) ==
    <<IF fi.kind = "bool" THEN "invalid value for bool flag -" ELSE "invalid value for flag -">>
        \o fi.shortName \o <<"/--">> \o fi.longName \o <<": ">> \o val

UnknownFlag(flag) == <<"unknown flag: ">> \o flag

\* Mutant: a Bool flag takes every text other than "true" as false.
CoerceLoose(fi, val) ==
    CASE fi.kind = "string" -> [ok |-> TRUE, v |-> val, err |-> Nil]
      [] fi.kind = "int" ->
            IF Atoi(val).ok THEN [ok |-> TRUE, v |-> Atoi(val).v, err |-> Nil]
            ELSE [ok |-> FALSE, v |-> 0, err |-> InvalidValue(fi, val)]
      [] fi.kind = "bool" -> [ok |-> TRUE, v |-> (val = True), err |-> Nil]

\* The switch on fi.kind: the value to store, or the error to return.
Coerce(fi, val) ==
    CASE fi.kind = "string" -> [ok |-> TRUE, v |-> val, err |-> Nil]
      [] fi.kind = "int" ->
            IF Atoi(val).ok THEN [ok |-> TRUE, v |-> Atoi(val).v, err |-> Nil]
            ELSE [ok |-> FALSE, v |-> 0, err |-> InvalidValue(fi, val)]
      [] fi.kind = "bool" ->
            IF val = True THEN [ok |-> TRUE, v |-> TRUE, err |-> Nil]
            ELSE IF val = False THEN [ok |-> TRUE, v |-> FALSE, err |-> Nil]
            ELSE [ok |-> FALSE, v |-> FALSE, err |-> InvalidValue(fi, val)]

\* Mutant: a matched name is not deleted from setFlags.
ApplyNameNoDelete(fi, name, st) ==
    IF st.err # Nil \/ name \notin DOMAIN st.setFlags THEN st
    ELSE LET c == Coerce(fi, st.setFlags[name])
         IN  IF c.ok THEN [st EXCEPT !.slots[fi.ptr] = c.v] ELSE [st EXCEPT !.err = c.err]

\* The body of the inner loop for one name of fi; st.err # Nil once Parse has
\* returned.
ApplyName(fi, name, st) ==
    IF st.err # Nil \/ name \notin DOMAIN st.setFlags THEN st
    ELSE LET c == Coerce(fi, st.setFlags[name])
         IN  IF c.ok
             THEN [st EXCEPT !.slots[fi.ptr] = c.v, !.setFlags = MapDelete(@, name)]
             ELSE [st EXCEPT !.err = c.err]

\* Mutant: the long name is not looked up when the short name was given.
ApplyFlagFirstGiven(fi, st) ==
    IF fi.shortName \in DOMAIN st.setFlags
    THEN ApplyName(fi, fi.shortName, st)
    ELSE ApplyName(fi, fi.longName, st)

\* Mutant: the long name is looked up before the short name.
ApplyFlagLongFirst(fi, st) == ApplyName(fi, fi.shortName, ApplyName(fi, fi.longName, st))

\* range []string{fi.shortName, fi.longName}
ApplyFlag(fi, st) == ApplyName(fi, fi.longName, ApplyName(fi, fi.shortName, st))

\* for i := len(p.flags) - 1; i >= 0; i--
RECURSIVE ApplyLoop(_, _, _)
ApplyLoop(fl, i, st) == IF i < 1 THEN st ELSE ApplyLoop(fl, i - 1, ApplyFlag(fl[i], st))

\* Mutant: the test of the final loop is inverted.
UnknownErrorsRegistered(fl, setFlags) == {UnknownFlag(f) : f \in {g \in DOMAIN setFlags : hasFlag(fl, g)}}

\* The errors the final loop can return: it ranges over a Go map, whose
\* iteration order is not specified, and returns at the first name that is
\* not registered.
UnknownErrors(fl, setFlags) == {UnknownFlag(f) : f \in {g \in DOMAIN setFlags : ~hasFlag(fl, g)}}

\* Mutant: the positional list is replaced only when Parse succeeds.
ParseResultsOnSuccess(fl, sl, a) ==
    LET sc == Scan(fl, a)
        ap == ApplyLoop(fl, Len(fl), [slots |-> sl, setFlags |-> sc.setFlags, err |-> Nil])
        unknown == UnknownErrors(fl, ap.setFlags)
    IN  IF ap.err # Nil
        THEN {[slots |-> ap.slots, positional |-> positional, err |-> ap.err]}
        ELSE IF unknown # {}
        THEN {[slots |-> ap.slots, positional |-> positional, err |-> e] : e \in unknown}
        ELSE {[slots |-> ap.slots, positional |-> sc.positional, err |-> Nil]}

\* Mutant: the slots are restored when Parse returns an error.
ParseResultsRollback(fl, sl, a) ==
    LET sc == Scan(fl, a)
        ap == ApplyLoop(fl, Len(fl), [slots |-> sl, setFlags |-> sc.setFlags, err |-> Nil])
        unknown == UnknownErrors(fl, ap.setFlags)
    IN  IF ap.err # Nil
        THEN {[slots |-> sl, positional |-> sc.positional, err |-> ap.err]}
        ELSE IF unknown # {}
        THEN {[slots |-> sl, positional |-> sc.positional, err |-> e] : e \in unknown}
        ELSE {[slots |-> ap.slots, positional |-> sc.positional, err |-> Nil]}

\* Mutant: the names that are not registered are looked for before the
\* values are applied.
ParseResultsUnknownFirst(fl, sl, a) ==
    LET sc == Scan(fl, a)
        ap == ApplyLoop(fl, Len(fl), [slots |-> sl, setFlags |-> sc.setFlags, err |-> Nil])
        unknown == UnknownErrors(fl, sc.setFlags)
    IN  IF unknown # {}
        THEN {[slots |-> sl, positional |-> sc.positional, err |-> e] : e \in unknown}
        ELSE IF ap.err # Nil
        THEN {[slots |-> ap.slots, positional |-> sc.positional, err |-> ap.err]}
        ELSE {[slots |-> ap.slots, positional |-> sc.positional, err |-> Nil]}

\* Mutant: every slot is set back to its default before the values are
\* applied.
ParseResultsResets(fl, sl, a) ==
    LET sc == Scan(fl, a)
        reset == [p \in DOMAIN sl |->
                    IF \E k \in 1..Len(fl) : fl[k].ptr = p
                    THEN fl[CHOOSE k \in 1..Len(fl) : fl[k].ptr = p].defaultValue
                    ELSE sl[p]]
        ap == ApplyLoop(fl, Len(fl), [slots |-> reset, setFlags |-> sc.setFlags, err |-> Nil])
        unknown == UnknownErrors(fl, ap.setFlags)
    IN  IF ap.err # Nil
        THEN {[slots |-> ap.slots, positional |-> sc.positional, err |-> ap.err]}
        ELSE IF unknown # {}
        THEN {[slots |-> ap.slots, positional |-> sc.positional, err |-> e] : e \in unknown}
        ELSE {[slots |-> ap.slots, positional |-> sc.positional, err |-> Nil]}

\* Every result Parse can produce for a token list without a help token.
ParseResults(fl, sl, a) ==
    LET sc == Scan(fl, a)
        ap == ApplyLoop(fl, Len(fl), [slots |-> sl, setFlags |-> sc.setFlags, err |-> Nil])
        unknown == UnknownErrors(fl, ap.setFlags)
    IN  IF ap.err # Nil
        THEN {[slots |-> ap.slots, positional |-> sc.positional, err |-> ap.err]}
        ELSE IF unknown # {}
        THEN {[slots |-> ap.slots, positional |-> sc.positional, err |-> e] : e \in unknown}
        ELSE {[slots |-> ap.slots, positional |-> sc.positional, err |-> Nil]}

-----------------------------------------------------------------------------
(* Usage *)

FlagNames(fi) ==
    IF fi.shortName # <<>> /\ fi.longName # <<>>
    THEN <<"-">> \o fi.shortName \o <<", --">> \o fi.longName
    ELSE IF fi.shortName # <<>> THEN <<"-">> \o fi.shortName
    ELSE IF fi.longName # <<>> THEN <<"--">> \o fi.longName
    ELSE <<>>

\* One Fprintf of the loop of Usage.
FlagBlock(fi) ==
    CASE fi.kind = "string" ->
            <<"  ">> \o FlagNames(fi) \o <<" string\n        ">> \o fi.description
                \o <<" (default ", "\"">> \o fi.defaultValue \o <<"\"", ")\n">>
      [] fi.kind = "int" ->
            <<"  ">> \o FlagNames(fi) \o <<" int\n        ">> \o fi.description
                \o <<" (default ">> \o Itoa(fi.defaultValue) \o <<")\n">>
      [] fi.kind = "bool" ->
            <<"  ">> \o FlagNames(fi) \o <<"\n        ">> \o fi.description
                \o <<" (default ">> \o (IF fi.defaultValue THEN True ELSE False) \o <<")\n">>

\* Mutant: the blocks are written from the last-registered flag down, the
\* order in which Parse goes through the flags.
UsageTextReversed(prog, fl) ==
    <<(<<"Usage of ">> \o prog \o <<":\n">>)>> \o [k \in 1..Len(fl) |-> FlagBlock(fl[Len(fl) + 1 - k])]

\* What Usage writes: one element per Fprintf.
UsageText(prog, fl) ==
    <<(<<"Usage of ">> \o prog \o <<":\n">>)>> \o [k \in 1..Len(fl) |-> FlagBlock(fl[k])]

-----------------------------------------------------------------------------
(* inputs *)

ShortNames == {<<>>, <<"n">>}

LongNames == {<<>>, <<"n", "m">>}

StringDefaults == {<<"d">>}

IntDefaults == {7}

BoolDefaults == {FALSE}

Descriptions == {<<"desc">>}

ProgramNames == {<<"testprog">>}

Tokens ==
    { <<"-", "n">>,
      <<"-", "-", "n", "m">>,
      <<"-", "n", "=", "5">>,
      <<"-", "-", "n", "m", "=", "z">>,
      <<"p">>,
      <<"-", "x">>,
      <<"-", "-">>,
      <<"-", "h">> }

CliTokens ==
    { <<"-", "n">>,
      <<"-", "n", "=", "A">>,
      <<"-", "-", "n", "a", "m", "e">>,
      <<"-", "-", "n", "a", "m", "e", "=", "A">>,
      <<"A">>,
      <<"B">>,
      <<"2", "5">>,
      <<"-", "a", "=", "2", "5">>,
      <<"-", "a", "=", "-", "3">>,
      <<"-", "-", "a", "g", "e">>,
      <<"-", "a">>,
      <<"-", "-", "a", "g", "e", "=", "2", "5">>,
      <<"-", "v">>,
      <<"-", "v", "=", "T", "r", "u", "e">>,
      <<"-", "v", "=">>,
      <<"-", "-", "v", "e", "r", "b", "o", "s", "e", "=", "f", "a", "l", "s", "e">>,
      <<"-", "x">>,
      <<"-", "-", "y">>,
      <<"-">>,
      <<"-", "-", "h", "e", "l", "p">> }

\* The token lists of at most n tokens of pool.
RECURSIVE ArgLists(_, _)
ArgLists(pool, n) ==
    IF n = 0 THEN {<<>>}
    ELSE ArgLists(pool, n - 1)
            \cup {Append(a, t) : a \in {b \in ArgLists(pool, n - 1) : Len(b) = n - 1}, t \in pool}

-----------------------------------------------------------------------------
(* the parser *)

\* Mutant: the default is not written through ptr, which keeps the zero
\* value of its type.
AppendFlagNoDefault(p, ptr, shortName, longName, defaultValue, description, kind) ==
    [flags |-> Append(p.flags, [shortName |-> shortName, longName |-> longName, ptr |-> ptr,
                                defaultValue |-> defaultValue, description |-> description,
                                kind |-> kind]),
     slots |-> [a \in (DOMAIN p.slots) \cup {ptr} |->
                  IF a # ptr THEN p.slots[a]
                  ELSE CASE kind = "string" -> <<>> [] kind = "int" -> 0 [] kind = "bool" -> FALSE]]

\* Mutant: a flag whose two names are already registered together is not
\* appended again.
AppendFlagUnique(p, ptr, shortName, longName, defaultValue, description, kind) ==
    [flags |-> IF \E k \in 1..Len(p.flags) :
                     p.flags[k].shortName = shortName /\ p.flags[k].longName = longName
               THEN p.flags
               ELSE Append(p.flags, [shortName |-> shortName, longName |-> longName, ptr |-> ptr,
                                     defaultValue |-> defaultValue, description |-> description,
                                     kind |-> kind]),
     slots |-> [a \in (DOMAIN p.slots) \cup {ptr} |-> IF a = ptr THEN defaultValue ELSE p.slots[a]]]

\* The body shared by StringVar, IntVar and BoolVar: the default is written
\* through ptr and a flagInfo is appended.
AppendFlag(p, ptr, shortName, longName, defaultValue, description, kind) ==
    [flags |-> Append(p.flags, [shortName |-> shortName, longName |-> longName, ptr |-> ptr,
                                defaultValue |-> defaultValue, description |-> description,
                                kind |-> kind]),
     slots |-> [a \in (DOMAIN p.slots) \cup {ptr} |-> IF a = ptr THEN defaultValue ELSE p.slots[a]]]

\* NewParser
NewParser == [flags |-> <<>>, slots |-> <<>>]

Init ==
    /\ flags = NewParser.flags
    /\ slots = NewParser.slots
    /\ positional = <<>>
    /\ output = <<>>
    /\ program = DefaultProgram
    /\ args = <<>>
    /\ err = Nil
    /\ last = "NewParser"
    /\ calls = 0

SetProgramName ==
    /\ \E name \in ProgramNames : program' = name
    /\ last' = "SetProgramName"
    /\ UNCHANGED <<flags, slots, positional, output, args, err, calls>>

\* A registration; the caller passes the address of a fresh variable.
Register(kind, shortName, longName, defaultValue, description) ==
    LET p == AppendFlag([flags |-> flags, slots |-> slots], Len(slots) + 1,
                        shortName, longName, defaultValue, description, kind)
    IN  /\ Len(flags) < MaxFlags
        /\ flags' = p.flags
        /\ slots' = p.slots
        /\ UNCHANGED <<positional, output, program, args, err, calls>>

StringVar ==
    /\ \E s \in ShortNames, l \in LongNames, d \in StringDefaults, t \in Descriptions :
          Register("string", s, l, d, t)
    /\ last' = "StringVar"

IntVar ==
    /\ \E s \in ShortNames, l \in LongNames, d \in IntDefaults, t \in Descriptions :
          Register("int", s, l, d, t)
    /\ last' = "IntVar"

BoolVar ==
    /\ \E s \in ShortNames, l \in LongNames, d \in BoolDefaults, t \in Descriptions :
          Register("bool", s, l, d, t)
    /\ last' = "BoolVar"

\* Mutant: an error other than ErrHelpRequested is also written to output.
ParseCallReportsErrors(a) ==
    /\ args' = a
    /\ IF \E h \in Help : contains(a, h)
       THEN /\ output' = output \o UsageText(program, flags)
            /\ err' = ErrHelpRequested
            /\ UNCHANGED <<slots, positional>>
       ELSE \E r \in ParseResults(flags, slots, a) :
               /\ slots' = r.slots
               /\ positional' = r.positional
               /\ err' = r.err
               /\ output' = IF r.err = Nil THEN output ELSE Append(output, r.err)
    /\ last' = "Parse"
    /\ calls' = calls + 1
    /\ UNCHANGED <<flags, program>>

\* Parse(a)
ParseCall(a) ==
    /\ args' = a
    /\ IF \E h \in Help : contains(a, h)
       THEN /\ output' = output \o UsageText(program, flags)
            /\ err' = ErrHelpRequested
            /\ UNCHANGED <<slots, positional>>
       ELSE \E r \in ParseResults(flags, slots, a) :
               /\ slots' = r.slots
               /\ positional' = r.positional
               /\ err' = r.err
               /\ UNCHANGED output
    /\ last' = "Parse"
    /\ calls' = calls + 1
    /\ UNCHANGED <<flags, program>>

\* Mutant: Usage also empties the positional list.
UsageCallClears ==
    /\ output' = output \o UsageText(program, flags)
    /\ positional' = <<>>
    /\ last' = "Usage"
    /\ calls' = calls + 1
    /\ UNCHANGED <<flags, slots, program, args, err>>

\* Usage()
UsageCall ==
    /\ output' = output \o UsageText(program, flags)
    /\ last' = "Usage"
    /\ calls' = calls + 1
    /\ UNCHANGED <<flags, slots, positional, program, args, err>>

\* The token lists given to Parse.
ParseInputs == ArgLists(Tokens, MaxArgs)

Parse == calls < MaxCalls /\ \E a \in ParseInputs : ParseCall(a)

Usage == calls < MaxCalls /\ UsageCall

\* Args()
Args == positional

Next == StringVar \/ IntVar \/ BoolVar \/ Parse \/ Usage

Spec == Init /\ [][Next]_vars

-----------------------------------------------------------------------------
(* The parser of TestParserLongFlags and TestParserShortFlags: three flags, *)
(* one of each kind, each with a short and a long name.                     *)

CliParser ==
    LET p1 == AppendFlag(NewParser, 1, <<"n">>, <<"n", "a", "m", "e">>,
                         <<"d", "e", "f", "a", "u", "l", "t">>, <<"The name">>, "string")
        p2 == AppendFlag(p1, 2, <<"a">>, <<"a", "g", "e">>, 0, <<"The age">>, "int")
    IN  AppendFlag(p2, 3, <<"v">>, <<"v", "e", "r", "b", "o", "s", "e">>, FALSE,
                   <<"Verbose output">>, "bool")

InitCli ==
    /\ flags = CliParser.flags
    /\ slots = CliParser.slots
    /\ positional = <<>>
    /\ output = <<>>
    /\ program = DefaultProgram
    /\ args = <<>>
    /\ err = Nil
    /\ last = "BoolVar"
    /\ calls = 0

CliInputs == ArgLists(CliTokens, MaxCliArgs)

ParseCli == calls < MaxCliCalls /\ \E a \in CliInputs : ParseCall(a)

UsageCli == calls < MaxCliCalls /\ UsageCall

NextCli == SetProgramName \/ ParseCli \/ UsageCli

SpecCli == InitCli /\ [][NextCli]_vars

-----------------------------------------------------------------------------
(* The parser of TestMixedFlagUsage: a short-only flag, a long-only flag    *)
(* and a flag with both names, given the token forms of TestEmptyFlagNames. *)

MixedParser ==
    LET p1 == AppendFlag(NewParser, 1, <<"s">>, <<>>, <<"s", "h", "o", "r", "t">>,
                         <<"Short only flag">>, "string")
        p2 == AppendFlag(p1, 2, <<>>, <<"l", "o", "n", "g">>, <<"l", "o", "n", "g">>,
                         <<"Long only flag">>, "string")
    IN  AppendFlag(p2, 3, <<"b">>, <<"b", "o", "t", "h">>, <<"b", "o", "t", "h">>,
                   <<"Both flags">>, "string")

MixedTokens ==
    { <<"-", "s">>,
      <<"-", "s", "=", "X">>,
      <<"-", "-", "s", "=", "X">>,
      <<"-", "-", "l", "o", "n", "g", "=", "X">>,
      <<"-", "l", "o", "n", "g", "=", "X">>,
      <<"-", "-", "n", "a", "m", "e", "=", "X">>,
      <<"-", "b">>,
      <<"X">> }

InitMixed ==
    /\ flags = MixedParser.flags
    /\ slots = MixedParser.slots
    /\ positional = <<>>
    /\ output = <<>>
    /\ program = DefaultProgram
    /\ args = <<>>
    /\ err = Nil
    /\ last = "StringVar"
    /\ calls = 0

MixedInputs == ArgLists(MixedTokens, MaxArgs)

ParseMixed == calls < MaxCalls /\ \E a \in MixedInputs : ParseCall(a)

UsageMixed == calls < MaxCalls /\ UsageCall

NextMixed == ParseMixed \/ UsageMixed

SpecMixed == InitMixed /\ [][NextMixed]_vars

-----------------------------------------------------------------------------
(* The parser of TestDuplicateFlagNames: two String flags registered with   *)
(* the same short and long names.                                           *)

DupParser ==
    LET p1 == AppendFlag(NewParser, 1, <<"n">>, <<"n", "a", "m", "e">>,
                         <<"d", "e", "f", "a", "u", "l", "t", "1">>, <<"First name">>, "string")
    IN  AppendFlag(p1, 2, <<"n">>, <<"n", "a", "m", "e">>,
                   <<"d", "e", "f", "a", "u", "l", "t", "2">>, <<"Second name">>, "string")

DupTokens ==
    { <<"-", "n">>,
      <<"t", "e", "s", "t">>,
      <<"-", "-", "n", "a", "m", "e", "=", "X">>,
      <<"-", "-", "o", "t", "h", "e", "r">>,
      <<"-", "h">> }

InitDup ==
    /\ flags = DupParser.flags
    /\ slots = DupParser.slots
    /\ positional = <<>>
    /\ output = <<>>
    /\ program = DefaultProgram
    /\ args = <<>>
    /\ err = Nil
    /\ last = "StringVar"
    /\ calls = 0

DupInputs == ArgLists(DupTokens, MaxArgs)

ParseDup == calls < MaxCalls /\ \E a \in DupInputs : ParseCall(a)

UsageDup == calls < MaxCalls /\ UsageCall

NextDup == SetProgramName \/ ParseDup \/ UsageDup

SpecDup == InitDup /\ [][NextDup]_vars

-----------------------------------------------------------------------------
(* The reading of a token list that the claims are stated in.  It is        *)
(* written on the tokens themselves and does not use the definitions of the *)
(* parser above.                                                            *)

Called == last = "Parse"

IsHelpToken(t) == t = <<"-", "-", "h", "e", "l", "p">> \/ t = <<"-", "h">>

HasHelp(a) == \E i \in 1..Len(a) : IsHelpToken(a[i])

Dashed(t) == Len(t) >= 1 /\ t[1] = "-"

IsFlagToken(t) == Dashed(t) /\ t # <<"-">>

\* A flag token without its one or two leading dashes.
Body(t) == IF Len(t) >= 2 /\ t[2] = "-" THEN SubSeq(t, 3, Len(t)) ELSE SubSeq(t, 2, Len(t))

HasEq(t) == \E k \in 1..Len(t) : t[k] = "="

EqAt(t) == CHOOSE k \in 1..Len(t) : t[k] = "=" /\ \A j \in 1..(k - 1) : t[j] # "="

AliasOf(t) == IF HasEq(t) THEN SubSeq(Body(t), 1, EqAt(Body(t)) - 1) ELSE Body(t)

\* The descriptors that carry alias x, and the last-registered of them.
Named(fl, x) == {k \in 1..Len(fl) : fl[k].shortName = x \/ fl[k].longName = x}

Holder(fl, x) == CHOOSE k \in Named(fl, x) : \A j \in Named(fl, x) : j <= k

\* Token i is the space-separated value of the bare flag token before it.
Consumed(fl, a, i) ==
    /\ i > 1
    /\ ~Dashed(a[i])
    /\ IsFlagToken(a[i - 1])
    /\ ~HasEq(a[i - 1])
    /\ \E k \in Named(fl, Body(a[i - 1])) : fl[k].kind # "bool"

FlagIndexes(a) == {i \in 1..Len(a) : IsFlagToken(a[i])}

\* The raw value that flag token i carries.
RawOf(fl, a, i) ==
    IF HasEq(a[i]) THEN SubSeq(Body(a[i]), EqAt(Body(a[i])) + 1, Len(Body(a[i])))
    ELSE IF i < Len(a) /\ Consumed(fl, a, i + 1) THEN a[i + 1]
    ELSE <<"t", "r", "u", "e">>

Mentioned(a) == {AliasOf(a[i]) : i \in FlagIndexes(a)}

\* The raw value of the last token that mentions alias x.
RefValue(fl, a, x) ==
    RawOf(fl, a, CHOOSE i \in FlagIndexes(a) :
                    /\ AliasOf(a[i]) = x
                    /\ \A j \in FlagIndexes(a) : AliasOf(a[j]) = x => j <= i)

RECURSIVE RefPositionalFrom(_, _, _)
RefPositionalFrom(fl, a, i) ==
    IF i > Len(a) THEN <<>>
    ELSE (IF IsFlagToken(a[i]) \/ Consumed(fl, a, i) THEN <<>> ELSE <<a[i]>>)
            \o RefPositionalFrom(fl, a, i + 1)

\* The tokens that are neither flag tokens nor consumed values, in order.
RefPositional(fl, a) == RefPositionalFrom(fl, a, 1)

RefIsInt(v) ==
    LET digits == IF v # <<>> /\ v[1] \in {"+", "-"} THEN SubSeq(v, 2, Len(v)) ELSE v
    IN  /\ digits # <<>>
        /\ \A k \in 1..Len(digits) :
              digits[k] \in {"0", "1", "2", "3", "4", "5", "6", "7", "8", "9"}

\* An integer text written the way an integer is printed.
Canonical(v) ==
    /\ RefIsInt(v)
    /\ v[1] # "+"
    /\ v[1] = "0" => Len(v) = 1
    /\ v[1] = "-" => v[2] # "0"

Valid(kind, v) ==
    CASE kind = "string" -> TRUE
      [] kind = "int" -> RefIsInt(v)
      [] kind = "bool" -> v = <<"t", "r", "u", "e">> \/ v = <<"f", "a", "l", "s", "e">>

\* stored is the value of the given kind that the raw text v denotes.
Denotes(kind, v, stored) ==
    CASE kind = "string" -> stored = v
      [] kind = "int" -> Canonical(v) /\ Itoa(stored) = v
      [] kind = "bool" -> \/ v = <<"t", "r", "u", "e">> /\ stored = TRUE
                          \/ v = <<"f", "a", "l", "s", "e">> /\ stored = FALSE

InvalidText(fi, v) ==
    <<IF fi.kind = "bool" THEN "invalid value for bool flag -" ELSE "invalid value for flag -">>
        \o fi.shortName \o <<"/--">> \o fi.longName \o <<": ">> \o v

IsInvalid(e) ==
    e # <<>> /\ e[1] \in {"invalid value for flag -", "invalid value for bool flag -"}

IsUnknown(e) == e # <<>> /\ e[1] = "unknown flag: "

\* The aliases of descriptor k that the token list mentions and that no
\* later-registered descriptor carries.
Held(fl, a, k) == {x \in Mentioned(a) : Named(fl, x) # {} /\ Holder(fl, x) = k}

\* The descriptor an InvalidValue error e was returned for: descriptors are
\* applied from the last-registered one down.
ErrNames(fl, a, e, k) == \E x \in Held(fl, a, k) : e = InvalidText(fl[k], RefValue(fl, a, x))

RECURSIVE FailingFrom(_, _, _, _)
FailingFrom(fl, a, e, k) ==
    IF k = 0 \/ ErrNames(fl, a, e, k) THEN k ELSE FailingFrom(fl, a, e, k - 1)

Failing(fl, a, e) == FailingFrom(fl, a, e, Len(fl))

-----------------------------------------------------------------------------
(* C1..C10 *)

\* C1 precondition: all aliases of the registry are non-empty and distinct,
\* there is no help token, and every flag token names a registered alias and
\* carries a value valid for its kind (a bare token of a String or Int flag
\* is followed by its value).
DistinctAliases(fl) ==
    /\ \A k \in 1..Len(fl) :
          fl[k].shortName # <<>> /\ fl[k].longName # <<>> /\ fl[k].shortName # fl[k].longName
    /\ \A j, k \in 1..Len(fl) :
          j # k => {fl[j].shortName, fl[j].longName} \cap {fl[k].shortName, fl[k].longName} = {}

WellFormed(fl, a) ==
    /\ ~HasHelp(a)
    /\ \A i \in FlagIndexes(a) :
          /\ Named(fl, AliasOf(a[i])) # {}
          /\ LET kind == fl[Holder(fl, AliasOf(a[i]))].kind
             IN  /\ Valid(kind, RawOf(fl, a, i))
                 /\ (kind # "bool" /\ ~HasEq(a[i])) => (i < Len(a) /\ Consumed(fl, a, i + 1))

\* C1: for a registry with distinct non-empty aliases and a well-formed token
\* list, Parse returns success, the slot of each mentioned flag holds the
\* coerced value of a token that mentions it (the value, when the tokens that
\* mention it agree), and Args() is the remaining tokens in input order.
C1_WellFormedParse ==
    (Called /\ DistinctAliases(flags) /\ WellFormed(flags, args)) =>
        /\ err = <<>>
        /\ \A k \in 1..Len(flags) :
              Held(flags, args, k) # {} =>
                 \E x \in Held(flags, args, k) :
                    Denotes(flags[k].kind, RefValue(flags, args, x), slots[flags[k].ptr])
        /\ Args = RefPositional(flags, args)

C1_Witness ==
    /\ Called
    /\ args = << <<"-", "n">>, <<"A">>, <<"-", "a", "=", "2", "5">>, <<"-", "v">> >>
    /\ err = <<>>
    /\ slots = << <<"A">>, 25, TRUE >>

C1_WitnessPositional ==
    /\ Called
    /\ args = << <<"-", "n">>, <<"A">>, <<"-", "v">>, <<"B">> >>
    /\ err = <<>>
    /\ slots[1] = <<"A">> /\ slots[3] = TRUE
    /\ Args = << <<"B">> >>

\* C2: a descriptor that shares a mentioned alias with a later-registered
\* descriptor, and is not itself the last-registered descriptor of another
\* mentioned alias, keeps the value its slot had before the call; on success
\* the last-registered descriptor of the alias holds a value given to it.
C2_LastRegisteredWins ==
    [][(last' = "Parse" /\ ~HasHelp(args')) =>
          \A j \in 1..Len(flags) :
             LET held == Held(flags, args', j)
                 shared == {x \in Mentioned(args') : j \in Named(flags, x)}
             IN  /\ (shared # {} /\ held = {}) => slots'[flags[j].ptr] = slots[flags[j].ptr]
                 /\ (held # {} /\ err' = <<>>) =>
                       \E y \in held :
                          Denotes(flags[j].kind, RefValue(flags, args', y), slots'[flags[j].ptr])]_vars

C2_Witness ==
    /\ Called
    /\ Len(flags) = 2
    /\ flags[1].shortName = <<"n">> /\ flags[2].shortName = <<"n">>
    /\ flags[1].kind = "string" /\ flags[2].kind = "string"
    /\ args = << <<"-", "n">>, <<"p">> >>
    /\ err = <<>>
    /\ slots[flags[2].ptr] = <<"p">>
    /\ slots[flags[1].ptr] = flags[1].defaultValue

\* C3: a Parse call whose token list contains a help token returns
\* ErrHelpRequested, appends the usage text to the output and leaves every
\* slot and the positional list as they were.
C3_HelpShortCircuits ==
    [][(last' = "Parse" /\ HasHelp(args')) =>
          /\ err' = <<"help requested">>
          /\ output' = output \o UsageText(program, flags)
          /\ Len(output') > Len(output)
          /\ slots' = slots
          /\ positional' = positional]_vars

\* A help token after an unknown alias and an invalid value, on a parser
\* whose earlier call left a positional token and a parsed value.
C3_Witness ==
    /\ Called
    /\ Len(flags) = 1 /\ flags[1].kind = "int" /\ flags[1].shortName = <<"n">>
    /\ args = << <<"-", "-", "n", "m", "=", "z">>, <<"-", "h">> >>
    /\ err = <<"help requested">>
    /\ slots[flags[1].ptr] = 5
    /\ positional = << <<"p">> >>

\* C4: without a help token, when every recorded value of a registered alias
\* coerces and some mentioned alias is registered nowhere, Parse returns
\* "unknown flag: <alias>" for one of the unregistered aliases.
Unregistered(fl, a) == {x \in Mentioned(a) : Named(fl, x) = {}}

AllValid(fl, a) ==
    \A x \in Mentioned(a) :
        Named(fl, x) # {} => Valid(fl[Holder(fl, x)].kind, RefValue(fl, a, x))

C4_UnknownFlag ==
    (Called /\ ~HasHelp(args) /\ AllValid(flags, args) /\ Unregistered(flags, args) # {}) =>
        \E x \in Unregistered(flags, args) : err = <<"unknown flag: ">> \o x

C4_Witness ==
    /\ Called
    /\ args = << <<"-", "a", "=", "2", "5">>, <<"-", "-", "y">> >>
    /\ err = <<"unknown flag: ", "y">>

\* C5 as claimed: whenever Parse returns an InvalidValue error for a flag,
\* the slot of that flag holds the value it held before the call.
C5_Claimed ==
    [][(last' = "Parse" /\ IsInvalid(err')) =>
          LET k == Failing(flags, args', err')
          IN  slots'[flags[k].ptr] = slots[flags[k].ptr]]_vars

\* The rejected value of descriptor k came through its long alias after a
\* valid value was applied through its short alias.
ShortApplied(fl, a, e, k) ==
    /\ fl[k].shortName # fl[k].longName
    /\ {fl[k].shortName, fl[k].longName} \subseteq Held(fl, a, k)
    /\ Valid(fl[k].kind, RefValue(fl, a, fl[k].shortName))
    /\ e = InvalidText(fl[k], RefValue(fl, a, fl[k].longName))

\* C5 amended: whenever Parse returns an InvalidValue error for a flag, the
\* slot of that flag holds the value it held before the call, except when
\* the rejected value was given through the long alias and the token list
\* also gives a valid value through the short alias: the slot then holds the
\* value given through the short alias.
C5_SlotOnInvalidValue ==
    [][(last' = "Parse" /\ IsInvalid(err')) =>
          LET k == Failing(flags, args', err')
          IN  IF ShortApplied(flags, args', err', k)
              THEN Denotes(flags[k].kind, RefValue(flags, args', flags[k].shortName),
                           slots'[flags[k].ptr])
              ELSE slots'[flags[k].ptr] = slots[flags[k].ptr]]_vars

\* An Int flag that keeps the value of an earlier call when a later call
\* gives it a text that is no integer.
C5_Witness ==
    /\ Called
    /\ calls = 2
    /\ Len(flags) = 1 /\ flags[1].kind = "int" /\ flags[1].longName = <<"n", "m">>
    /\ args = << <<"-", "-", "n", "m", "=", "z">> >>
    /\ IsInvalid(err)
    /\ slots[flags[1].ptr] = 5

C5_WitnessShortApplied ==
    /\ Called
    /\ Len(flags) = 1 /\ flags[1].kind = "int"
    /\ args = << <<"-", "n", "=", "5">>, <<"-", "-", "n", "m", "=", "z">> >>
    /\ IsInvalid(err)
    /\ slots[flags[1].ptr] = 5

\* C6: without a help token, when some recorded value does not fit the kind
\* of the descriptor it is matched to (no integer text for an Int flag,
\* neither "true" nor "false" for a Bool flag), Parse returns the
\* InvalidValue error that names the aliases of such a descriptor and the
\* offending text; otherwise every mentioned flag holds a value given to it:
\* the text itself (String), the integer it denotes (Int), the truth value
\* it spells (Bool).
BadPairs(fl, a) ==
    {p \in (1..Len(fl)) \X Mentioned(a) :
        /\ p[2] \in Held(fl, a, p[1])
        /\ ~Valid(fl[p[1]].kind, RefValue(fl, a, p[2]))}

C6_CoercionByKind ==
    (Called /\ ~HasHelp(args)) =>
        IF BadPairs(flags, args) # {}
        THEN \E p \in BadPairs(flags, args) :
                err = InvalidText(flags[p[1]], RefValue(flags, args, p[2]))
        ELSE \A k \in 1..Len(flags) :
                Held(flags, args, k) # {} =>
                   \E x \in Held(flags, args, k) :
                      Denotes(flags[k].kind, RefValue(flags, args, x), slots[flags[k].ptr])

C6_Witness ==
    /\ Called
    /\ args = << <<"-", "v", "=", "T", "r", "u", "e">> >>
    /\ err = <<"invalid value for bool flag -", "v", "/--", "v", "e", "r", "b", "o", "s", "e",
               ": ", "T", "r", "u", "e">>

C6_WitnessInt ==
    /\ Called
    /\ args = << <<"-", "a", "=", "-", "3">>, <<"-", "n", "=", "A">>,
                 <<"-", "-", "v", "e", "r", "b", "o", "s", "e", "=", "f", "a", "l", "s", "e">> >>
    /\ err = <<>>
    /\ slots = << <<"A">>, -3, FALSE >>

\* C7 as claimed, for a flag that the token list mentions once: a bare token
\* of a String or Int flag that is the last token, or is followed by a token
\* that starts with "-", makes Parse return an InvalidValue error and leaves
\* the slot of the flag as it was.
BareNoValue(fl, a, i) ==
    /\ IsFlagToken(a[i])
    /\ ~HasEq(a[i])
    /\ i = Len(a) \/ Dashed(a[i + 1])
    /\ Named(fl, Body(a[i])) # {}
    /\ fl[Holder(fl, Body(a[i]))].kind # "bool"

MentionedOnce(fl, a, k) ==
    Cardinality({i \in FlagIndexes(a) : AliasOf(a[i]) \in {fl[k].shortName, fl[k].longName}}) = 1

C7_Claimed ==
    [][(last' = "Parse" /\ ~HasHelp(args')) =>
          \A i \in 1..Len(args') :
             (BareNoValue(flags, args', i)
                 /\ MentionedOnce(flags, args', Holder(flags, Body(args'[i])))) =>
                /\ IsInvalid(err')
                /\ LET k == Holder(flags, Body(args'[i]))
                   IN  slots'[flags[k].ptr] = slots[flags[k].ptr]]_vars

\* C8 as claimed: whenever a Parse call returns success, every registered
\* flag none of whose aliases the token list mentions holds its default.
Unmentioned(fl, a) ==
    {k \in 1..Len(fl) : {fl[k].shortName, fl[k].longName} \cap Mentioned(a) = {}}

C9_ArgsAreTheRest ==
    (Called /\ ~HasHelp(args)) => Args = RefPositional(flags, args)

\* A second call whose only non-flag token is consumed as a value.
C9_Witness ==
    /\ Called
    /\ calls = 2
    /\ args = << <<"-", "n">>, <<"p">> >>
    /\ Len(flags) = 1 /\ flags[1].kind = "string" /\ flags[1].shortName = <<"n">>
    /\ slots[flags[1].ptr] = <<"p">>
    /\ Args = <<>>

\* C10 as claimed: a Parse call that returns an error does not change what
\* Args() returns.
C10_Claimed ==
    [][(last' = "Parse" /\ err' # <<>>) => Args' = Args]_vars

\* C10 amended: Args() returns the positional tokens of the most recent
\* Parse call that did not return HelpRequested, whether that call returned
\* success, InvalidValue or UnknownFlag; a call that returns HelpRequested,
\* and every other operation, does not change what Args() returns.
C10_ArgsOfLastScan ==
    [][IF last' = "Parse" /\ err' # <<"help requested">>
       THEN Args' = RefPositional(flags, args')
       ELSE Args' = Args]_vars

C10_Witness ==
    /\ Called
    /\ calls = 2
    /\ args = << <<"p">>, <<"-", "x">> >>
    /\ err = <<"unknown flag: ", "x">>
    /\ Args = << <<"p">> >>

-----------------------------------------------------------------------------
(* C11..C20 *)

\* The four ways of giving value v to the flag fi.
Forms(fi, v) ==
    { << <<"-">> \o fi.shortName, v >>,
      << <<"-">> \o fi.shortName \o <<"=">> \o v >>,
      << <<"-", "-">> \o fi.longName, v >>,
      << <<"-", "-">> \o fi.longName \o <<"=">> \o v >> }

\* The values, none starting with a dash, that C11 is checked for.
PlainValues == {<<"A">>, <<"B">>, <<"2", "5">>}

\* C11: for a non-Bool flag that has a short and a long alias, both resolving
\* to it, and a value v that does not start with a dash, Parse of [-s, v],
\* [-s=v], [--l, v] or [--l=v] has one and the same result, fixed by the
\* flag and v alone: success with the slot holding v coerced, or, when v is
\* not valid for the kind, InvalidValue quoting v with the slot unchanged.
C11_AliasEquivalence ==
    [][(last' = "Parse") =>
         \A k \in 1..Len(flags) : \A v \in PlainValues :
            (/\ flags[k].kind # "bool"
             /\ flags[k].shortName # <<>> /\ flags[k].longName # <<>>
             /\ Holder(flags, flags[k].shortName) = k
             /\ Holder(flags, flags[k].longName) = k
             /\ args' \in Forms(flags[k], v)) =>
                IF Valid(flags[k].kind, v)
                THEN /\ err' = <<>>
                     /\ Denotes(flags[k].kind, v, slots'[flags[k].ptr])
                     /\ Args' = <<>>
                ELSE /\ err' = InvalidText(flags[k], v)
                     /\ slots'[flags[k].ptr] = slots[flags[k].ptr]]_vars

C11_Witness ==
    /\ Called
    /\ args = << <<"-", "-", "n", "a", "m", "e">>, <<"A">> >>
    /\ err = <<>>
    /\ slots[1] = <<"A">>

\* The flag tokens that mention alias x.
Occurrences(a, x) == {i \in FlagIndexes(a) : AliasOf(a[i]) = x}

\* C12: when an alias is given more than once, in any mix of the = form and
\* the space form, only the value of its last occurrence is applied: unless
\* Parse returns InvalidValue, the slot of the flag the alias resolves to
\* holds that value coerced; and when no other alias is mentioned, a last
\* value that is not valid for the kind is the one the InvalidValue error
\* quotes, whatever the earlier occurrences carried.
C12_LastOccurrenceWins ==
    (Called /\ ~HasHelp(args)) =>
        \A k \in 1..Len(flags) : \A x \in Held(flags, args, k) :
           (Held(flags, args, k) = {x} /\ Cardinality(Occurrences(args, x)) >= 2) =>
              /\ ~IsInvalid(err) =>
                    Denotes(flags[k].kind, RefValue(flags, args, x), slots[flags[k].ptr])
              /\ (Mentioned(args) = {x} /\ ~Valid(flags[k].kind, RefValue(flags, args, x))) =>
                    err = InvalidText(flags[k], RefValue(flags, args, x))
              /\ (Mentioned(args) = {x} /\ Valid(flags[k].kind, RefValue(flags, args, x))) =>
                    err = <<>>

C12_Witness ==
    /\ Called
    /\ args = << <<"-", "n", "=", "A">>, <<"-", "n">>, <<"B">> >>
    /\ err = <<>>
    /\ slots[1] = <<"B">>

LongForm(t) == Len(t) >= 2 /\ t[1] = "-" /\ t[2] = "-"

ShortForm(t) == IsFlagToken(t) /\ ~LongForm(t)

\* Flag token t is written in a form that some descriptor registers for the
\* alias it names.
UsesRegisteredForm(fl, t) ==
    \E k \in 1..Len(fl) :
       \/ LongForm(t) /\ fl[k].longName # <<>> /\ fl[k].longName = AliasOf(t)
       \/ ShortForm(t) /\ fl[k].shortName # <<>> /\ fl[k].shortName = AliasOf(t)

\* C13, as claimed: the slot of a short-only flag is not written by a Parse
\* whose flag tokens are all of the long form, the slot of a long-only flag is
\* not written by a Parse whose flag tokens are all of the short form, and a
\* Parse given a flag token in a form that no descriptor registers for its
\* alias returns an error (UnknownFlag, unless an InvalidValue comes first).
C13_Claimed ==
    [][(last' = "Parse" /\ ~HasHelp(args')) =>
         /\ \A k \in 1..Len(flags) :
               /\ (flags[k].shortName # <<>> /\ flags[k].longName = <<>>
                     /\ \A i \in FlagIndexes(args') : LongForm(args'[i])) =>
                        slots'[flags[k].ptr] = slots[flags[k].ptr]
               /\ (flags[k].longName # <<>> /\ flags[k].shortName = <<>>
                     /\ \A i \in FlagIndexes(args') : ShortForm(args'[i])) =>
                        slots'[flags[k].ptr] = slots[flags[k].ptr]
         /\ (\E i \in FlagIndexes(args') : ~UsesRegisteredForm(flags, args'[i])) =>
               (IsUnknown(err') \/ IsInvalid(err'))]_vars

\* Flag token i of a is bare (no =) and its alias resolves to a Bool flag.
BareBool(fl, a, i) ==
    /\ i \in FlagIndexes(a)
    /\ ~HasEq(a[i])
    /\ AliasOf(a[i]) # <<>>
    /\ Named(fl, AliasOf(a[i])) # {}
    /\ fl[Holder(fl, AliasOf(a[i]))].kind = "bool"

\* Error e is an InvalidValue error of the flag fi.
RejectedBy(e, fi) ==
    /\ Len(e) >= Len(InvalidText(fi, <<>>))
    /\ SubSeq(e, 1, Len(InvalidText(fi, <<>>))) = InvalidText(fi, <<>>)

\* C14, as claimed: a bare token of a Bool flag never consumes the token after
\* it, so a following token that does not start with a dash is in Args(); the
\* value it gives is true, which Parse does not reject, and when it is the
\* last token of the only mentioned alias of the flag and no InvalidValue
\* error is returned, the slot of the flag is true.
C14_Claimed ==
    (Called /\ ~HasHelp(args)) =>
        \A i \in 1..Len(args) :
           BareBool(flags, args, i) =>
              /\ (i < Len(args) /\ ~Dashed(args[i + 1])) =>
                    \E j \in 1..Len(Args) : Args[j] = args[i + 1]
              /\ (/\ Held(flags, args, Holder(flags, AliasOf(args[i]))) = {AliasOf(args[i])}
                  /\ \A j \in Occurrences(args, AliasOf(args[i])) : j <= i) =>
                    /\ ~RejectedBy(err, flags[Holder(flags, AliasOf(args[i]))])
                    /\ ~IsInvalid(err) => slots[flags[Holder(flags, AliasOf(args[i]))].ptr] = TRUE

\* Flag token i of a is bare (no =), its alias resolves to a String or Int
\* flag, and the token after it starts with a dash.
BareBeforeDash(fl, a, i) ==
    /\ i \in FlagIndexes(a)
    /\ ~HasEq(a[i])
    /\ Named(fl, AliasOf(a[i])) # {}
    /\ fl[Holder(fl, AliasOf(a[i]))].kind # "bool"
    /\ i < Len(a)
    /\ Dashed(a[i + 1])

\* C15: a token that starts with a dash is not taken as the value of the bare
\* String or Int flag token before it.  The raw value recorded for the flag
\* is the text "true" (when the bare token is the last one of its alias; a
\* String flag then stores "true" unless InvalidValue is returned for another
\* flag), and the token after it is classified on its own: "-" is appended to
\* Args(), any other is recorded as a flag token and is not in Args().
C15_DashTokenNotConsumed ==
    (Called /\ ~HasHelp(args)) =>
        \A i \in 1..Len(args) :
           BareBeforeDash(flags, args, i) =>
              LET x == AliasOf(args[i])
                  k == Holder(flags, x)
                  sc == Scan(flags, args)
              IN  /\ (\A j \in Occurrences(args, x) : j <= i) =>
                        /\ x \in DOMAIN sc.setFlags
                        /\ sc.setFlags[x] = <<"t", "r", "u", "e">>
                        /\ (flags[k].kind = "string" /\ Held(flags, args, k) = {x}
                              /\ ~IsInvalid(err)) =>
                                 slots[flags[k].ptr] = <<"t", "r", "u", "e">>
                  /\ IF args[i + 1] = <<"-">>
                     THEN \E j \in 1..Len(Args) : Args[j] = <<"-">>
                     ELSE /\ AliasOf(args[i + 1]) \in DOMAIN sc.setFlags
                          /\ \A j \in 1..Len(Args) : Args[j] # args[i + 1]

C15_Witness ==
    /\ Called
    /\ args = << <<"-", "n">>, <<"-", "v">> >>
    /\ err = <<>>
    /\ slots[1] = <<"t", "r", "u", "e">>
    /\ slots[3] = TRUE

CountOf(s, t) == Cardinality({j \in 1..Len(s) : s[j] = t})

\* The tokens of a before position i that are appended to Args().
PositionalBefore(fl, a, i) ==
    {j \in 1..(i - 1) : ~IsFlagToken(a[j]) /\ ~Consumed(fl, a, j)}

\* C16: after a Parse without a help token, every token "-" of the list is in
\* Args(), at the place its position among the positional tokens gives it;
\* it is not recorded under the empty alias that cutting its dash would
\* leave, and it causes no UnknownFlag error: a list without flag tokens
\* parses with success, and no "unknown flag: " with an empty name is
\* returned when no flag token of the list has an empty alias.
C16_SingleDashIsPositional ==
    (Called /\ ~HasHelp(args)) =>
        /\ CountOf(Args, <<"-">>) = CountOf(args, <<"-">>)
        /\ \A i \in 1..Len(args) :
              args[i] = <<"-">> =>
                 /\ Cardinality(PositionalBefore(flags, args, i)) < Len(Args)
                 /\ Args[Cardinality(PositionalBefore(flags, args, i)) + 1] = <<"-">>
        /\ FlagIndexes(args) = {} => err = <<>>
        /\ (\A i \in FlagIndexes(args) : AliasOf(args[i]) # <<>>) =>
              /\ <<>> \notin DOMAIN Scan(flags, args).setFlags
              /\ err # <<"unknown flag: ">>

C16_Witness ==
    /\ Called
    /\ args = << <<"A">>, <<"-">>, <<"-", "v">>, <<"-">> >>
    /\ err = <<>>
    /\ Args = << <<"A">>, <<"-">>, <<"-">> >>
    /\ slots[3] = TRUE

\* C17, as claimed: the slot of a descriptor registered with an empty short
\* name and an empty long name holds its registered default after any
\* sequence of Parse calls.
C17_Claimed ==
    \A k \in 1..Len(flags) :
       (flags[k].shortName = <<>> /\ flags[k].longName = <<>>) =>
          slots[flags[k].ptr] = flags[k].defaultValue

\* The outcomes of Parse, numbered: success, ErrHelpRequested, InvalidValue,
\* UnknownFlag.
OutcomeIs(e, c) ==
    CASE c = 1 -> e = <<>>
      [] c = 2 -> e = <<"help requested">>
      [] c = 3 -> IsInvalid(e)
      [] c = 4 -> IsUnknown(e)

\* C18: what a Parse call returns is exactly one of success,
\* ErrHelpRequested, an InvalidValue error (of a descriptor and a value
\* recorded for it that does not coerce) and an UnknownFlag error (of a
\* recorded alias that no descriptor carries); it is ErrHelpRequested exactly
\* when a help token is present, and success exactly when there is no help
\* token, every recorded value matched to a descriptor coerces to its kind
\* and every recorded alias is carried by some descriptor.
C18_Outcomes ==
    Called =>
        /\ Cardinality({c \in 1..4 : OutcomeIs(err, c)}) = 1
        /\ (err = <<"help requested">>) <=> HasHelp(args)
        /\ (err = <<>>) <=>
              (~HasHelp(args) /\ AllValid(flags, args) /\ Unregistered(flags, args) = {})
        /\ IsInvalid(err) =>
              \E p \in BadPairs(flags, args) :
                 err = InvalidText(flags[p[1]], RefValue(flags, args, p[2]))
        /\ IsUnknown(err) =>
              \E x \in Unregistered(flags, args) : err = <<"unknown flag: ">> \o x

C18_Witness ==
    /\ Called
    /\ Len(flags) = 2
    /\ flags[1].kind = "int" /\ flags[2].kind = "bool"
    /\ args = << <<"-", "n", "=", "5">>, <<"-", "-", "n", "m">> >>
    /\ err = <<>>
    /\ slots[flags[1].ptr] = 5 /\ slots[flags[2].ptr] = TRUE

Written == SubSeq(output', Len(output) + 1, Len(output'))

\* C20: a call of Usage() appends one header, "Usage of <program>:", and
\* then one block for every registered descriptor, in registration order:
\* the k-th block is the block of the k-th descriptor and carries its
\* description and its default, also when descriptors share their aliases.
C20_UsageListsEveryDescriptor ==
    [][(last' = "Usage") =>
          /\ Len(output') = Len(output) + 1 + Len(flags)
          /\ SubSeq(output', 1, Len(output)) = output
          /\ Written[1] = <<"Usage of ">> \o program \o <<":\n">>
          /\ \A k \in 1..Len(flags) :
                /\ Written[k + 1] = FlagBlock(flags[k])
                /\ \E j \in 1..Len(Written[k + 1]) : <<Written[k + 1][j]>> = flags[k].description
                /\ flags[k].kind = "string" =>
                      \E j \in 1..Len(Written[k + 1]) :
                         /\ j + Len(flags[k].defaultValue) + 1 <= Len(Written[k + 1])
                         /\ SubSeq(Written[k + 1], j, j + Len(flags[k].defaultValue) + 1)
                               = <<"\"">> \o flags[k].defaultValue \o <<"\"">>]_vars

\* The usage text of the two flags that share -n and --name.
C20_Witness ==
    /\ last = "Usage"
    /\ program = <<"testprog">>
    /\ Len(output) = 3
    /\ output[1] = <<"Usage of ", "testprog", ":\n">>
    /\ output[2] = <<"  ", "-", "n", ", --", "n", "a", "m", "e", " string\n        ", "First name",
                     " (default ", "\"", "d", "e", "f", "a", "u", "l", "t", "1", "\"", ")\n">>
    /\ output[3] = <<"  ", "-", "n", ", --", "n", "a", "m", "e", " string\n        ", "Second name",
                     " (default ", "\"", "d", "e", "f", "a", "u", "l", "t", "2", "\"", ")\n">>

-----------------------------------------------------------------------------
(* C21..C30 *)

\* Descriptor j holds, after the step, a value given to one of the mentioned
\* aliases that resolve to it.
Updated(j) ==
    \E x \in Held(flags, args', j) :
       Denotes(flags[j].kind, RefValue(flags, args', x), slots'[flags[j].ptr])

\* C21: Parse does not roll back.  When it returns InvalidValue for the
\* descriptor of registration index k, every descriptor registered after k
\* that a mentioned alias resolves to holds the value given to it, and every
\* descriptor registered before k has the slot value it had before the call.
\* When it returns UnknownFlag, every descriptor that a mentioned alias
\* resolves to holds the value given to it.
C21_NoRollback ==
    [][(last' = "Parse" /\ ~HasHelp(args')) =>
          /\ IsInvalid(err') =>
                LET k == Failing(flags, args', err')
                IN  /\ k \in 1..Len(flags)
                    /\ \A j \in 1..Len(flags) :
                          /\ (j > k /\ Held(flags, args', j) # {}) => Updated(j)
                          /\ (j < k) => slots'[flags[j].ptr] = slots[flags[j].ptr]
          /\ IsUnknown(err') =>
                \A j \in 1..Len(flags) : Held(flags, args', j) # {} => Updated(j)]_vars

\* The later-registered flag took 5, then the earlier-registered one
\* rejected z.
C21_Witness ==
    /\ Called
    /\ Len(flags) = 2
    /\ flags[1].kind = "int" /\ flags[1].shortName = <<>> /\ flags[1].longName = <<"n", "m">>
    /\ flags[2].kind = "int" /\ flags[2].shortName = <<"n">> /\ flags[2].longName = <<>>
    /\ args = << <<"-", "-", "n", "m", "=", "z">>, <<"-", "n", "=", "5">> >>
    /\ err = <<"invalid value for flag -", "/--", "n", "m", ": ", "z">>
    /\ slots[flags[2].ptr] = 5
    /\ slots[flags[1].ptr] = 7

\* Token i is the value of the bare flag token before it, when the alias of
\* that token is resolved to the last-registered descriptor that carries it.
ConsumedByLast(fl, a, i) ==
    /\ i > 1
    /\ ~Dashed(a[i])
    /\ IsFlagToken(a[i - 1])
    /\ ~HasEq(a[i - 1])
    /\ Named(fl, Body(a[i - 1])) # {}
    /\ fl[Holder(fl, Body(a[i - 1]))].kind # "bool"

RECURSIVE PositionalByLastFrom(_, _, _)
PositionalByLastFrom(fl, a, i) ==
    IF i > Len(a) THEN <<>>
    ELSE (IF IsFlagToken(a[i]) \/ ConsumedByLast(fl, a, i) THEN <<>> ELSE <<a[i]>>)
            \o PositionalByLastFrom(fl, a, i + 1)

\* C22, as claimed: a bare flag token consumes the following token that does
\* not start with a dash if and only if the last-registered descriptor that
\* carries its alias is not Bool, also when descriptors of different kinds
\* share the alias: Args() is the tokens that are neither flag tokens nor
\* consumed in that sense.  Stated for flag tokens that name an alias.
C22_Claimed ==
    (Called /\ ~HasHelp(args) /\ \A i \in FlagIndexes(args) : AliasOf(args[i]) # <<>>) =>
        Args = PositionalByLastFrom(flags, args, 1)

\* C23, as claimed: two Parse calls, one after the other on the same registry
\* and with the same token list, that both return UnknownFlag return it for
\* the same alias.
C23_Claimed ==
    [][(last = "Parse" /\ last' = "Parse" /\ flags' = flags /\ args' = args
          /\ (\A i \in FlagIndexes(args) : AliasOf(args[i]) # <<>>)
          /\ IsUnknown(err) /\ IsUnknown(err')) => err' = err]_vars

Registration == {"StringVar", "IntVar", "BoolVar"}

KindOf(call) ==
    CASE call = "StringVar" -> "string" [] call = "IntVar" -> "int" [] call = "BoolVar" -> "bool"

\* C24: a registration call appends exactly one descriptor, of the kind of
\* the call, at the end of the sequence, whatever aliases are already
\* registered; the descriptors registered before keep their place and their
\* content; and the slot of the new descriptor holds its default right after
\* the call.  The same holds for a registration made after a Parse call.
C24_RegistrationAppends ==
    [][(last' \in Registration) =>
          /\ Len(flags') = Len(flags) + 1
          /\ SubSeq(flags', 1, Len(flags)) = flags
          /\ flags'[Len(flags')].kind = KindOf(last')
          /\ \A j \in 1..Len(flags) : flags'[Len(flags')].ptr # flags[j].ptr
          /\ slots'[flags'[Len(flags')].ptr] = flags'[Len(flags')].defaultValue]_vars

\* A second flag registered on -n after a Parse that set the first.
C24_Witness ==
    /\ last = "IntVar"
    /\ calls = 1
    /\ args = << <<"-", "n">>, <<"p">> >>
    /\ Len(flags) = 2
    /\ flags[1].kind = "string" /\ flags[1].shortName = <<"n">> /\ flags[1].longName = <<"n", "m">>
    /\ flags[2].kind = "int" /\ flags[2].shortName = <<"n">> /\ flags[2].longName = <<"n", "m">>
    /\ slots[flags[1].ptr] = <<"p">>
    /\ slots[flags[2].ptr] = 7

\* C25: a call of Usage(), made directly or by a Parse whose token list has a
\* help token, leaves the descriptor sequence, every slot, the positional
\* list and the program name as they were; only the output grows.
C25_UsageFrame ==
    [][(last' = "Usage" \/ (last' = "Parse" /\ HasHelp(args'))) =>
          /\ flags' = flags
          /\ slots' = slots
          /\ Args' = Args
          /\ program' = program
          /\ Len(output') > Len(output)]_vars

\* Usage() on the renamed program, after a Parse that set the second of the
\* two flags and left a positional token.
C25_Witness ==
    /\ last = "Usage"
    /\ calls = 2
    /\ program = <<"testprog">>
    /\ args = << <<"-", "-", "n", "a", "m", "e", "=", "X">>, <<"t", "e", "s", "t">> >>
    /\ slots = << <<"d", "e", "f", "a", "u", "l", "t", "1">>, <<"X">> >>
    /\ Args = << <<"t", "e", "s", "t">> >>
    /\ Len(output) = 3

\* The position the scan is at after the iteration that starts at token i.
NextIndex(fl, a, i) ==
    ScanStep(fl, a, [positional |-> <<>>, setFlags |-> EmptyMap, next |-> i]).next

\* The positions at which the iterations of the scan start, from i on.
RECURSIVE Iterations(_, _, _)
Iterations(fl, a, i) ==
    IF i > Len(a) THEN <<>> ELSE <<i>> \o Iterations(fl, a, NextIndex(fl, a, i))

\* C26: the scan of Parse ends.  From every position of the token list an
\* iteration moves the index forward by one, or by two when the token after a
\* bare flag is consumed as its value, and never beyond the position after the
\* last token; so the scan makes at most one iteration per token and stops at
\* Len(args) + 1.  The apply loop then makes one pass over the registered
\* flags and two names each.
C26_ScanAdvances ==
    (Called /\ ~HasHelp(args)) =>
        /\ \A i \in 1..Len(args) :
              /\ NextIndex(flags, args, i) \in {i + 1, i + 2}
              /\ NextIndex(flags, args, i) <= Len(args) + 1
              /\ NextIndex(flags, args, i) = i + 2 <=>
                    (IsFlagToken(args[i]) /\ i < Len(args) /\ Consumed(flags, args, i + 1))
        /\ Len(Iterations(flags, args, 1)) <= Len(args)
        /\ Scan(flags, args).next = Len(args) + 1
        /\ LET it == Iterations(flags, args, 1)
                started == {it[j] : j \in 1..Len(it)}
            IN  Len(it) + Cardinality({i \in 2..Len(args) :
                                         Consumed(flags, args, i) /\ i - 1 \in started})
                   = Len(args)

\* A scan of four tokens in three iterations: the second one consumes A.
C26_Witness ==
    /\ Called
    /\ args = << <<"-", "v">>, <<"-", "n">>, <<"A">>, <<"B">> >>
    /\ Iterations(flags, args, 1) = <<1, 2, 4>>
    /\ err = <<>>
    /\ Args = << <<"B">> >>

\* C27: when a token list mentions the short alias and the long alias of a
\* descriptor that shares them with no other, each with a value valid for its
\* kind, and Parse does not return InvalidValue (for another flag), the slot
\* holds the value given through the long alias, also when the token of the
\* short alias comes later in the input.
C27_LongAliasWins ==
    (Called /\ ~HasHelp(args)) =>
        \A k \in 1..Len(flags) :
           LET s == flags[k].shortName
               l == flags[k].longName
           IN  (/\ s # <<>> /\ l # <<>> /\ s # l
                /\ Named(flags, s) = {k} /\ Named(flags, l) = {k}
                /\ s \in Mentioned(args) /\ l \in Mentioned(args)
                /\ Valid(flags[k].kind, RefValue(flags, args, s))
                /\ Valid(flags[k].kind, RefValue(flags, args, l))
                /\ ~IsInvalid(err)) =>
                   Denotes(flags[k].kind, RefValue(flags, args, l), slots[flags[k].ptr])

\* The long alias first with A, the short alias after it with B.
C27_Witness ==
    /\ Called
    /\ args = << <<"-", "-", "n", "a", "m", "e", "=", "A">>, <<"-", "n">>, <<"B">> >>
    /\ err = <<>>
    /\ slots[1] = <<"A">>

\* C28: when a token list without a help token gives a registered flag a
\* value that does not coerce to its kind and also mentions an alias that no
\* descriptor carries, Parse returns the InvalidValue error of such a flag
\* and value, not UnknownFlag, in whichever order the two tokens come.
C28_InvalidBeforeUnknown ==
    (Called /\ ~HasHelp(args) /\ BadPairs(flags, args) # {} /\ Unregistered(flags, args) # {}) =>
        /\ ~IsUnknown(err)
        /\ \E p \in BadPairs(flags, args) :
              err = InvalidText(flags[p[1]], RefValue(flags, args, p[2]))

\* The unregistered -x comes first in the input, the bad Bool value second.
C28_Witness ==
    /\ Called
    /\ args = << <<"-", "x">>, <<"-", "v", "=", "T", "r", "u", "e">> >>
    /\ err = <<"invalid value for bool flag -", "v", "/--", "v", "e", "r", "b", "o", "s", "e",
               ": ", "T", "r", "u", "e">>

ConsumedIndexes(fl, a) == {i \in 1..Len(a) : Consumed(fl, a, i)}

\* C29: in a Parse without a help token every token is a flag token, or the
\* value consumed by the flag token right before it, or a positional, and
\* only one of the three: the three numbers add up to the number of tokens,
\* no position is both a flag token and a consumed value, and every text is
\* in Args() as many times as it stands at a position that is neither, so a
\* consumed value is not appended to Args() as well.
C29_ClassifiedOnce ==
    (Called /\ ~HasHelp(args)) =>
        /\ Cardinality(FlagIndexes(args)) + Cardinality(ConsumedIndexes(flags, args)) + Len(Args)
              = Len(args)
        /\ FlagIndexes(args) \cap ConsumedIndexes(flags, args) = {}
        /\ \A i \in 1..Len(args) :
              CountOf(Args, args[i]) =
                 Cardinality({j \in 1..Len(args) :
                                /\ args[j] = args[i]
                                /\ j \notin FlagIndexes(args)
                                /\ j \notin ConsumedIndexes(flags, args)})

\* The first A is the value of -n, the second A is a positional.
C29_Witness ==
    /\ Called
    /\ args = << <<"-", "n">>, <<"A">>, <<"A">>, <<"-", "v">> >>
    /\ err = <<>>
    /\ slots[1] = <<"A">>
    /\ Args = << <<"A">> >>

====
